---- MODULE Spec2Model ----
(***************************************************************************)
(* Model of the fluent client (fluent.go, options.go): Post, Close and     *)
(* Shutdown called by concurrent goroutines, the closed flag under its     *)
(* sync.RWMutex, the unbuffered enqueue channel, the per-Post reply        *)
(* channel, the worker-done channel and the cancellation trigger.  The     *)
(* background minion, whose code is in another file, is modelled from its  *)
(* contract.                                                               *)
(***************************************************************************)
EXTENDS Integers, Sequences, FiniteSets, TLC

\* ---- bounds ----
NumCallers == 2          \* goroutines calling the client
MaxCalls == 2            \* calls made in one behaviour, all goroutines together
MaxOpts == 2             \* options passed to one Post (option-scan specification)
MaxTime == 3             \* latest timestamp passed to WithTimestamp, in ticks
MaxTicks == 1            \* times the clock advances in one behaviour

\* ---- fixed choices of the model ----
TicksPerSec == 2         \* resolution of time.Time in the model: ticks per second
MinTime == 0 - TicksPerSec              \* earliest timestamp passed to WithTimestamp, in ticks
StartNow == MaxTime + TicksPerSec + 1   \* time.Now() at construction, in ticks: later than every timestamp passed

Callers == 1..NumCallers
Tags == {"tag.a", "tag.b"}
Records == {"r1"}
Times == MinTime..MaxTime

\* ---- values ----
Nil == "nil"                                   \* the nil error
ErrClientClosed == "client has already been closed"
ErrWriterClosed == "writer has been closed. Shutdown called?"
ErrBufferFull == "buffer size exceeds limit"   \* errors the minion reports
ErrMarshal == "failed to marshal payload"
ErrCanceled == "context canceled"
ErrDeadline == "context deadline exceeded"
AckValues == {Nil, ErrBufferFull, ErrMarshal}
NoCh == 0                                      \* a nil channel
NoMsg == [Tag |-> "", Time |-> 0, Record |-> "", replyCh |-> NoCh]
NoEnv == 0                                     \* a nil *Message
EnvIds == 1..MaxCalls                          \* the Message objects ever allocated

\* ---- options.go ----
WithTimestamp(tm) == [name |-> "timestamp", value |-> tm]
WithSyncAppend(b) == [name |-> "sync_append", value |-> b]
WithSubsecond(b) == [name |-> "subsecond", value |-> b]

\* time.Time.Unix(): whole seconds since the epoch, rounded down
Unix(tm) == tm \div TicksPerSec

AllOptions ==
    {WithTimestamp(tm) : tm \in Times}
        \cup {WithSyncAppend(b) : b \in BOOLEAN}
        \cup {WithSubsecond(TRUE)}

RECURSIVE SeqsUpTo(_, _)
SeqsUpTo(S, n) ==
    IF n = 0 THEN {<<>>}
    ELSE LET shorter == SeqsUpTo(S, n - 1)
         IN  shorter \cup {Append(s, x) : s \in {q \in shorter : Len(q) = n - 1}, x \in S}

\* option lists a Post is called with
OptionLists == SeqsUpTo(AllOptions, MaxOpts)
\* the option lists the concurrent specification calls Post with
FewOptionLists == {<<>>, <<WithSyncAppend(TRUE)>>}

\* Post's loop over its options (fluent.go 66-75): the state after the
\* first n options, starting from syncAppend = false and t = 0
RECURSIVE ScanOptions(_, _)
ScanOptions(options, n) ==
    IF n = 0 THEN [syncAppend |-> FALSE, t |-> 0]
    ELSE LET acc == ScanOptions(options, n - 1)
             opt == options[n]
         IN  CASE opt.name = "timestamp" -> [acc EXCEPT !.t = Unix(opt.value)]
               [] opt.name = "sync_append" -> [acc EXCEPT !.syncAppend = opt.value]
               [] OTHER -> acc

\* fluent.go 76-78: the time of the record
RecordTime(t, now) == IF t = 0 THEN Unix(now) ELSE t

\* ---- state ----
VARIABLES
    pc,            \* where each goroutine is in its call ("idle": between calls)
    op,            \* the call each goroutine made last: "none", "Post", "Close", "Shutdown"
    args,          \* Post's arguments: tag, v, options
    ctx,           \* Shutdown's context: "nil", "live", "canceled", "deadline"
    syncAppend,    \* Post's local syncAppend
    msg,           \* Post's local msg: the Message object it got from the pool
    replyCh,       \* Post's local replyCh
    e,             \* Post's local e, the value read from replyCh
    ret,           \* the value the last call returned
    retSite,       \* the line of fluent.go that returned it (0: none)
    enqueued,      \* whether the call's send on minionQueue happened
    afterClose,    \* whether a Close had returned when the call started
    startDone,     \* whether minionDone was closed when the call started
    closed,        \* Client.closed
    readers,       \* goroutines holding muClosed's read lock
    writer,        \* the goroutine that holds or has requested muClosed's write lock (0: none)
    cancelCount,   \* times minionCancel has been invoked
    closeReturned, \* whether some Close has run to its end
    minionDone,    \* whether the minionDone channel is closed
    workerCur,     \* the envelope the minion is processing (NoMsg: none)
    received,      \* the envelopes the minion received from minionQueue, in order
    acks,          \* the replies the minion wrote: records [ch, val]
    held,          \* the Message objects the minion received and has not released
    heap,          \* the fields of every Message object
    pool,          \* the Message objects in the pool
    nextEnv,       \* the next Message object the pool allocates
    sent,          \* the tag and record of every Post whose send happened, in order
    nextCh,        \* the next channel make(chan error) returns
    now,           \* the clock, in ticks
    ncalls         \* calls made so far

callVars == <<pc, op, args, ctx, syncAppend, msg, replyCh, e, ret, retSite, enqueued, afterClose,
              startDone>>
lockVars == <<closed, readers, writer>>
workerVars == <<minionDone, workerCur, received, acks>>
poolVars == <<held, heap, pool, nextEnv>>
vars == <<callVars, lockVars, workerVars, poolVars, sent, cancelCount, closeReturned, nextCh, now,
          ncalls>>

NoArgs == [tag |-> "", v |-> "", options |-> <<>>]

\* New (fluent.go 21-38): an open client and a running minion
Init ==
    /\ pc = [p \in Callers |-> "idle"]
    /\ op = [p \in Callers |-> "none"]
    /\ args = [p \in Callers |-> NoArgs]
    /\ ctx = [p \in Callers |-> "nil"]
    /\ syncAppend = [p \in Callers |-> FALSE]
    /\ msg = [p \in Callers |-> NoEnv]
    /\ replyCh = [p \in Callers |-> NoCh]
    /\ e = [p \in Callers |-> Nil]
    /\ ret = [p \in Callers |-> Nil]
    /\ retSite = [p \in Callers |-> 0]
    /\ enqueued = [p \in Callers |-> FALSE]
    /\ afterClose = [p \in Callers |-> FALSE]
    /\ startDone = [p \in Callers |-> FALSE]
    /\ closed = FALSE
    /\ readers = {}
    /\ writer = 0
    /\ cancelCount = 0
    /\ closeReturned = FALSE
    /\ minionDone = FALSE
    /\ workerCur = NoMsg
    /\ received = <<>>
    /\ acks = {}
    /\ held = {}
    /\ heap = [env \in EnvIds |-> NoMsg]
    /\ pool = {}
    /\ nextEnv = 1
    /\ sent = <<>>
    /\ nextCh = 1
    /\ now = StartNow
    /\ ncalls = 0

\* a call starts: the locals of the goroutine's previous call are gone.
\* Goroutines are interchangeable, so they are numbered in the order of
\* their first calls.
StartCall(p, name, a, c) ==
    /\ pc[p] = "idle"
    /\ ncalls < MaxCalls
    /\ \A q \in Callers : q < p => op[q] # "none"
    /\ ncalls' = ncalls + 1
    /\ op' = [op EXCEPT ![p] = name]
    /\ args' = [args EXCEPT ![p] = a]
    /\ ctx' = [ctx EXCEPT ![p] = c]
    /\ syncAppend' = [syncAppend EXCEPT ![p] = FALSE]
    /\ msg' = [msg EXCEPT ![p] = NoEnv]
    /\ replyCh' = [replyCh EXCEPT ![p] = NoCh]
    /\ e' = [e EXCEPT ![p] = Nil]
    /\ ret' = [ret EXCEPT ![p] = Nil]
    /\ retSite' = [retSite EXCEPT ![p] = 0]
    /\ enqueued' = [enqueued EXCEPT ![p] = FALSE]
    /\ afterClose' = [afterClose EXCEPT ![p] = closeReturned]
    /\ startDone' = [startDone EXCEPT ![p] = minionDone]

\* a call returns val from the given line; Post's deferred RUnlock (line 60)
\* runs at every return of Post
Return(p, val, site) ==
    /\ pc' = [pc EXCEPT ![p] = "idle"]
    /\ ret' = [ret EXCEPT ![p] = val]
    /\ retSite' = [retSite EXCEPT ![p] = site]
    /\ readers' = readers \ {p}

\* ---- Post (fluent.go 57-115) ----
PostCall(p, tag, v, options) ==
    /\ StartCall(p, "Post", [tag |-> tag, v |-> v, options |-> options], "nil")
    /\ pc' = [pc EXCEPT ![p] = "rlock"]
    /\ UNCHANGED <<lockVars, workerVars, poolVars, sent, cancelCount, closeReturned, nextCh, now>>

\* a Post that gives the read lock back right after taking it
PostRLockNoHold(p) ==
    /\ pc[p] = "rlock"
    /\ writer = 0
    /\ pc' = [pc EXCEPT ![p] = "check"]
    /\ UNCHANGED <<op, args, ctx, syncAppend, msg, replyCh, e, ret, retSite, enqueued, afterClose,
                   startDone, lockVars, workerVars, cancelCount, closeReturned,
                   nextCh, now, ncalls, poolVars, sent>>

\* line 59: RLock waits while a writer holds or has requested the lock
PostRLock(p) ==
    /\ pc[p] = "rlock"
    /\ writer = 0
    /\ readers' = readers \cup {p}
    /\ pc' = [pc EXCEPT ![p] = "check"]
    /\ UNCHANGED <<op, args, ctx, syncAppend, msg, replyCh, e, ret, retSite, enqueued, afterClose,
                   startDone, closed, writer, workerVars, cancelCount, closeReturned,
                   nextCh, now, ncalls, poolVars, sent>>

\* a Post that does not look at the closed flag
NeverSeesClosed(c) == FALSE

\* line 62: the test of the closed flag
SeesClosed(c) == c

\* a Post that ignores sync_append, and one that always waits for a reply
WantsReplyNever(sa) == FALSE
WantsReplyAlways(sa) == TRUE

\* line 88: whether Post makes a reply channel and waits on it
WantsReply(sa) == sa

\* a Post that leaves the tag and the record of its Message unset
BuildMessageEmpty(tag, v, options, clock, ch) ==
    LET scan == ScanOptions(options, Len(options))
    IN  [Tag |-> "",
         Time |-> RecordTime(scan.t, clock),
         Record |-> "",
         replyCh |-> IF scan.syncAppend THEN ch ELSE NoCh]

\* lines 80-91: the envelope Post builds
BuildMessage(tag, v, options, clock, ch) ==
    LET scan == ScanOptions(options, Len(options))
    IN  [Tag |-> tag,
         Time |-> RecordTime(scan.t, clock),
         Record |-> v,
         replyCh |-> IF WantsReply(scan.syncAppend) THEN ch ELSE NoCh]

\* lines 62-64: closed, so return the error
PostClosed(p) ==
    /\ pc[p] = "check"
    /\ SeesClosed(closed)
    /\ Return(p, ErrClientClosed, 63)
    /\ UNCHANGED <<op, args, ctx, syncAppend, msg, replyCh, e, enqueued, afterClose, startDone,
                   closed, writer, workerVars, cancelCount, closeReturned, nextCh, now,
                   ncalls, poolVars, sent>>

\* lines 62-91: not closed, so scan the options, take a Message object from
\* the pool (one that was released, or a new one) and fill it in
PostBuild(p) ==
    /\ pc[p] = "check"
    /\ ~SeesClosed(closed)
    /\ \E env \in pool \cup {nextEnv} :
           LET scan == ScanOptions(args[p].options, Len(args[p].options))
               m == BuildMessage(args[p].tag, args[p].v, args[p].options, now, nextCh)
           IN  /\ syncAppend' = [syncAppend EXCEPT ![p] = scan.syncAppend]
               /\ msg' = [msg EXCEPT ![p] = env]
               /\ replyCh' = [replyCh EXCEPT ![p] = m.replyCh]
               /\ heap' = [heap EXCEPT ![env] = m]
               /\ pool' = pool \ {env}
               /\ nextEnv' = IF env = nextEnv THEN nextEnv + 1 ELSE nextEnv
               /\ nextCh' = IF m.replyCh = NoCh THEN nextCh ELSE nextCh + 1
    /\ pc' = [pc EXCEPT ![p] = "select1"]
    /\ UNCHANGED <<op, args, ctx, e, ret, retSite, enqueued, afterClose, startDone,
                   lockVars, workerVars, held, sent, cancelCount, closeReturned, now,
                   ncalls>>

\* a first select without the minionDone case, and one whose minionDone
\* case returns nil
PostEnqueueNoDoneCase(p) ==
    /\ pc[p] = "select1"
    /\ FALSE
    /\ UNCHANGED vars
PostEnqueueDoneNil(p) ==
    /\ pc[p] = "select1"
    /\ minionDone
    /\ Return(p, Nil, 95)
    /\ UNCHANGED <<op, args, ctx, syncAppend, msg, replyCh, e, enqueued, afterClose, startDone,
                   closed, writer, workerVars, cancelCount, closeReturned, nextCh, now,
                   ncalls, poolVars, sent>>

\* lines 94-95: the first select takes the minionDone case
PostEnqueueDone(p) ==
    /\ pc[p] = "select1"
    /\ minionDone
    /\ Return(p, ErrWriterClosed, 95)
    /\ UNCHANGED <<op, args, ctx, syncAppend, msg, replyCh, e, enqueued, afterClose, startDone,
                   closed, writer, workerVars, cancelCount, closeReturned, nextCh, now,
                   ncalls, poolVars, sent>>

\* line 96, Post's side of the send on the unbuffered minionQueue
PostSent(p) ==
    /\ pc[p] = "select1"
    /\ pc' = [pc EXCEPT ![p] = "posted"]
    /\ enqueued' = [enqueued EXCEPT ![p] = TRUE]
    /\ sent' = Append(sent, [tag |-> args[p].tag, v |-> args[p].v])

\* lines 99 and 114: after the send, wait for the reply or return nil
PostAfterEnqueue(p) ==
    /\ pc[p] = "posted"
    /\ IF WantsReply(syncAppend[p])
       THEN /\ pc' = [pc EXCEPT ![p] = "select2"]
            /\ UNCHANGED <<ret, retSite, readers>>
       ELSE Return(p, Nil, 114)
    /\ UNCHANGED <<op, args, ctx, syncAppend, msg, replyCh, e, enqueued, afterClose, startDone,
                   closed, writer, workerVars, cancelCount, closeReturned, nextCh, now,
                   ncalls, poolVars, sent>>

\* a second select without the minionDone case
PostReplyNoDoneCase(p) ==
    /\ pc[p] = "select2"
    /\ FALSE
    /\ UNCHANGED vars

\* lines 104-105: the second select takes the minionDone case
PostReplyDone(p) ==
    /\ pc[p] = "select2"
    /\ minionDone
    /\ Return(p, ErrWriterClosed, 105)
    /\ UNCHANGED <<op, args, ctx, syncAppend, msg, replyCh, e, enqueued, afterClose, startDone,
                   closed, writer, workerVars, cancelCount, closeReturned, nextCh, now,
                   ncalls, poolVars, sent>>

\* a Post that waits on the channel it finds in the Message object
ReplyChannelOfMessage(p) == IF msg[p] = NoEnv THEN NoCh ELSE heap[msg[p]].replyCh

\* line 106: the channel Post receives from, its local replyCh
ReplyChannel(p) == replyCh[p]

\* line 106, Post's side of the receive from replyCh
PostGotReply(p, val) ==
    /\ pc[p] = "select2"
    /\ e' = [e EXCEPT ![p] = val]
    /\ pc' = [pc EXCEPT ![p] = "gotreply"]

\* a Post that drops the reply it read
ReplyResultNil(val) == Nil

\* line 110: what Post returns for the reply e
ReplyResult(val) == val

\* line 110: return e
PostReturnReply(p) ==
    /\ pc[p] = "gotreply"
    /\ Return(p, ReplyResult(e[p]), 110)
    /\ UNCHANGED <<op, args, ctx, syncAppend, msg, replyCh, e, enqueued, afterClose, startDone,
                   closed, writer, workerVars, cancelCount, closeReturned, nextCh, now,
                   ncalls, poolVars, sent>>

\* ---- Close (fluent.go 120-127) and Shutdown (fluent.go 132-152) ----
CloseCall(p) ==
    /\ StartCall(p, "Close", NoArgs, "nil")
    /\ pc' = [pc EXCEPT ![p] = "lock"]
    /\ UNCHANGED <<lockVars, workerVars, poolVars, sent, cancelCount, closeReturned, nextCh, now>>

\* lines 138-142: a nil context stands for context.Background()
ShutdownCall(p, c) ==
    /\ StartCall(p, "Shutdown", NoArgs, c)
    /\ pc' = [pc EXCEPT ![p] = "lock"]
    /\ UNCHANGED <<lockVars, workerVars, poolVars, sent, cancelCount, closeReturned, nextCh, now>>

\* line 121, first half: Lock announces the writer, which holds off new readers
CloseLock(p) ==
    /\ pc[p] = "lock"
    /\ writer = 0
    /\ writer' = p
    /\ pc' = [pc EXCEPT ![p] = "lockwait"]
    /\ UNCHANGED <<op, args, ctx, syncAppend, msg, replyCh, e, ret, retSite, enqueued, afterClose,
                   startDone, closed, readers, workerVars, cancelCount, closeReturned,
                   nextCh, now, ncalls, poolVars, sent>>

\* a Close whose Lock does not wait for the readers to leave
CloseSkipsReaders(p) ==
    /\ pc[p] = "lockwait"
    /\ closed' = TRUE
    /\ writer' = 0
    /\ pc' = [pc EXCEPT ![p] = "cancel"]
    /\ UNCHANGED <<op, args, ctx, syncAppend, msg, replyCh, e, ret, retSite, enqueued, afterClose,
                   startDone, readers, workerVars, cancelCount, closeReturned, nextCh,
                   now, ncalls, poolVars, sent>>

\* a Close that takes and releases the lock without storing the flag
CloseLeavesOpen(p) ==
    /\ pc[p] = "lockwait"
    /\ readers = {}
    /\ writer' = 0
    /\ pc' = [pc EXCEPT ![p] = "cancel"]
    /\ UNCHANGED <<op, args, ctx, syncAppend, msg, replyCh, e, ret, retSite, enqueued, afterClose,
                   startDone, closed, readers, workerVars, cancelCount, closeReturned,
                   nextCh, now, ncalls, poolVars, sent>>

\* a Close that flips the flag instead of setting it
CloseFlipsClosed(p) ==
    /\ pc[p] = "lockwait"
    /\ readers = {}
    /\ closed' = ~closed
    /\ writer' = 0
    /\ pc' = [pc EXCEPT ![p] = "cancel"]
    /\ UNCHANGED <<op, args, ctx, syncAppend, msg, replyCh, e, ret, retSite, enqueued, afterClose,
                   startDone, readers, workerVars, cancelCount, closeReturned, nextCh,
                   now, ncalls, poolVars, sent>>

\* line 121, second half, and lines 122-123: Lock returns once every reader
\* has left; set the flag and unlock
CloseSetClosed(p) ==
    /\ pc[p] = "lockwait"
    /\ readers = {}
    /\ closed' = TRUE
    /\ writer' = 0
    /\ pc' = [pc EXCEPT ![p] = "cancel"]
    /\ UNCHANGED <<op, args, ctx, syncAppend, msg, replyCh, e, ret, retSite, enqueued, afterClose,
                   startDone, readers, workerVars, cancelCount, closeReturned, nextCh,
                   now, ncalls, poolVars, sent>>

\* lines 125-126: cancel the minion's context; Close returns nil, and
\* Shutdown (line 142) goes on to its select
CloseCancel(p) ==
    /\ pc[p] = "cancel"
    /\ cancelCount' = cancelCount + 1
    /\ closeReturned' = TRUE
    /\ IF op[p] = "Close"
       THEN Return(p, Nil, 126)
       ELSE /\ pc' = [pc EXCEPT ![p] = "wait"]
            /\ UNCHANGED <<ret, retSite, readers>>
    /\ UNCHANGED <<op, args, ctx, syncAppend, msg, replyCh, e, enqueued, afterClose, startDone,
                   closed, writer, workerVars, nextCh, now, ncalls, poolVars, sent>>

\* a nil context taken for one that has ended
CtxDoneUnlessLive(c) == c # "live"

\* ctx.Done() is closed and ctx.Err() is set
CtxDone(c) == c \in {"canceled", "deadline"}
CtxErr(c) == IF c = "canceled" THEN ErrCanceled ELSE ErrDeadline

\* lines 147-148: the select takes the ctx.Done() case
ShutdownCtxDone(p) ==
    /\ pc[p] = "wait"
    /\ CtxDone(ctx[p])
    /\ Return(p, CtxErr(ctx[p]), 148)
    /\ UNCHANGED <<op, args, ctx, syncAppend, msg, replyCh, e, enqueued, afterClose, startDone,
                   closed, writer, workerVars, cancelCount, closeReturned, nextCh, now,
                   ncalls, poolVars, sent>>

\* a Shutdown whose select has no minionDone case
ShutdownNoDoneCase(p) ==
    /\ pc[p] = "wait"
    /\ FALSE
    /\ UNCHANGED vars

\* lines 149-150: the select takes the minionDone case
ShutdownMinionDone(p) ==
    /\ pc[p] = "wait"
    /\ minionDone
    /\ Return(p, Nil, 150)
    /\ UNCHANGED <<op, args, ctx, syncAppend, msg, replyCh, e, enqueued, afterClose, startDone,
                   closed, writer, workerVars, cancelCount, closeReturned, nextCh, now,
                   ncalls, poolVars, sent>>

\* the caller cancels the context it gave Shutdown, or its deadline passes
CtxEnds(p, c) ==
    /\ op[p] = "Shutdown"
    /\ pc[p] # "idle"
    /\ ctx[p] = "live"
    /\ ctx' = [ctx EXCEPT ![p] = c]
    /\ UNCHANGED <<pc, op, args, syncAppend, msg, replyCh, e, ret, retSite, enqueued, afterClose,
                   startDone, lockVars, workerVars, cancelCount, closeReturned, nextCh,
                   now, ncalls, poolVars, sent>>

\* ---- the minion (its contract: the reader of minionQueue, the writer of
\* the reply channels, the closer of minionDone) ----
\* a minionQueue that takes p's envelope without the minion receiving it
WorkerRecvLater(p) ==
    /\ ~minionDone
    /\ workerCur = NoMsg
    /\ PostSent(p)
    /\ UNCHANGED <<op, args, ctx, syncAppend, msg, replyCh, e, ret, retSite, afterClose,
                   startDone, lockVars, workerVars, poolVars, cancelCount,
                   closeReturned, nextCh, now, ncalls>>

\* the minion receives p's envelope from minionQueue
WorkerRecv(p) ==
    /\ ~minionDone
    /\ workerCur = NoMsg
    /\ PostSent(p)
    /\ received' = Append(received, heap[msg[p]])
    /\ workerCur' = IF heap[msg[p]].replyCh = NoCh THEN NoMsg ELSE heap[msg[p]]
    /\ held' = held \cup {msg[p]}
    /\ UNCHANGED <<op, args, ctx, syncAppend, msg, replyCh, e, ret, retSite, afterClose,
                   startDone, lockVars, minionDone, acks, heap, pool, nextEnv, cancelCount,
                   closeReturned, nextCh, now, ncalls>>

\* the minion writes val to the reply channel of the envelope it holds; the
\* channel is unbuffered, so the write happens when its reader receives
WorkerReply(p, val) ==
    /\ ~minionDone
    /\ workerCur # NoMsg
    /\ ReplyChannel(p) = workerCur.replyCh
    /\ PostGotReply(p, val)
    /\ acks' = acks \cup {[ch |-> workerCur.replyCh, val |-> val]}
    /\ workerCur' = NoMsg
    /\ UNCHANGED <<op, args, ctx, syncAppend, msg, replyCh, ret, retSite, enqueued, afterClose,
                   startDone, lockVars, minionDone, received, poolVars, sent, cancelCount,
                   closeReturned, nextCh, now, ncalls>>

\* the minion is finished with a Message object it received and puts it back
\* to the pool, which clears its fields
WorkerRelease(env) ==
    /\ ~minionDone
    /\ env \in held
    /\ held' = held \ {env}
    /\ heap' = [heap EXCEPT ![env] = NoMsg]
    /\ pool' = pool \cup {env}
    /\ UNCHANGED <<callVars, lockVars, workerVars, nextEnv, sent, cancelCount,
                   closeReturned, nextCh, now, ncalls>>

\* the minion stops for good and closes minionDone: after cancellation, or
\* on its own after a fatal error
WorkerExit ==
    /\ ~minionDone
    /\ minionDone' = TRUE
    /\ UNCHANGED <<callVars, lockVars, workerCur, received, acks, poolVars, sent,
                   cancelCount, closeReturned, nextCh, now, ncalls>>

\* time passes
Tick ==
    /\ now < StartNow + MaxTicks
    /\ now' = now + 1
    /\ UNCHANGED <<callVars, lockVars, workerVars, poolVars, sent, cancelCount,
                   closeReturned, nextCh, ncalls>>

\* ---- specifications ----
PostStep(p) ==
    \/ PostRLock(p)
    \/ PostClosed(p)
    \/ PostBuild(p)
    \/ PostEnqueueDone(p)
    \/ PostAfterEnqueue(p)
    \/ PostReplyDone(p)
    \/ PostReturnReply(p)

CloseStep(p) ==
    \/ CloseLock(p)
    \/ CloseSetClosed(p)
    \/ CloseCancel(p)

ShutdownStep(p) ==
    \/ ShutdownCtxDone(p)
    \/ ShutdownMinionDone(p)

WorkerServes ==
    \/ \E p \in Callers : WorkerRecv(p)
    \/ \E p \in Callers, val \in AckValues : WorkerReply(p, val)

\* a minion that keeps the Message objects it received, so that every Post
\* gets a new one from the pool
WorkerStep == WorkerServes \/ WorkerExit

\* a step of some call that needs nothing from the minion
ClientStep == \E q \in Callers : PostStep(q) \/ CloseStep(q) \/ ShutdownStep(q)

CtxKinds == {"nil", "live", "canceled", "deadline"}

\* goroutines call Post, Close and Shutdown concurrently
Next ==
    \/ \E p \in Callers, tag \in Tags, v \in Records, options \in FewOptionLists :
           PostCall(p, tag, v, options)
    \/ \E p \in Callers : CloseCall(p)
    \/ \E p \in Callers, c \in CtxKinds : ShutdownCall(p, c)
    \/ \E p \in Callers : PostStep(p)
    \/ \E p \in Callers : CloseStep(p)
    \/ \E p \in Callers : ShutdownStep(p)
    \/ \E p \in Callers, c \in {"canceled", "deadline"} : CtxEnds(p, c)
    \/ WorkerStep

Spec == Init /\ [][Next]_vars

\* the same goroutines under Go's scheduler, and a minion that keeps working
\* until it exits: a call that can take a step is not held up for ever, and
\* the minion receives what is offered and replies to what it received
Fairness ==
    /\ WF_vars(ClientStep)
    /\ WF_vars(WorkerServes)

\* the calls of Next with one tag, contexts that are nil or end by their
\* deadline, and two of the minion's replies: none of these changes which
\* steps a call can take
FairNext ==
    \/ \E p \in Callers, options \in FewOptionLists : PostCall(p, "tag.a", "r1", options)
    \/ \E p \in Callers : CloseCall(p)
    \/ \E p \in Callers, c \in {"nil", "live"} : ShutdownCall(p, c)
    \/ ClientStep
    \/ \E p \in Callers : CtxEnds(p, "deadline")
    \/ \E p \in Callers : WorkerRecv(p)
    \/ \E p \in Callers, val \in {Nil, ErrBufferFull} : WorkerReply(p, val)
    \/ WorkerExit

FairSpec == Init /\ [][FairNext]_vars /\ Fairness

\* one goroutine makes one Post on an open client, with any list of options,
\* while time passes
OptNext ==
    \/ \E tag \in Tags, v \in Records, options \in OptionLists :
           ncalls = 0 /\ PostCall(1, tag, v, options)
    \/ PostRLock(1)
    \/ PostBuild(1)
    \/ PostEnqueueDone(1)
    \/ PostAfterEnqueue(1)
    \/ PostReplyDone(1)
    \/ PostReturnReply(1)
    \/ WorkerStep
    \/ Tick

OptSpec == Init /\ [][OptNext]_vars

\* goroutines Post concurrently on an open client, and the minion puts the
\* Message objects it is finished with back to the pool, at any time after it
\* received them; the tag does not change which steps a call can take
PoolNext ==
    \/ \E p \in Callers, options \in FewOptionLists : PostCall(p, "tag.a", "r1", options)
    \/ \E p \in Callers : PostRLock(p)
    \/ \E p \in Callers : PostBuild(p)
    \/ \E p \in Callers : PostEnqueueDone(p)
    \/ \E p \in Callers : PostAfterEnqueue(p)
    \/ \E p \in Callers : PostReplyDone(p)
    \/ \E p \in Callers : PostReturnReply(p)
    \/ WorkerServes
    \/ \E env \in EnvIds : WorkerRelease(env)
    \/ WorkerExit

PoolSpec == Init /\ [][PoolNext]_vars

\* ---- what the properties speak of ----
Returned(p) == pc[p] = "idle" /\ op[p] # "none"
InCall(p) == pc[p] # "idle"

\* no call in progress can take a step: only the minion can change that
WaitsForWorker == ~ENABLED ClientStep

\* Close or Shutdown has been called
CloseCalled == closed \/ \E q \in Callers : op[q] \in {"Close", "Shutdown"} /\ InCall(q)

HasOption(options, name) == \E i \in 1..Len(options) : options[i].name = name
LastOption(options, name) ==
    options[CHOOSE i \in 1..Len(options) :
                /\ options[i].name = name
                /\ \A j \in (i + 1)..Len(options) : options[j].name # name]
AsksSync(options) ==
    HasOption(options, "sync_append") /\ LastOption(options, "sync_append").value

\* the whole seconds of a time given in ticks
Seconds(tm) == CHOOSE sec \in (MinTime - 1)..(StartNow + MaxTicks) :
                   sec * TicksPerSec <= tm /\ tm < (sec + 1) * TicksPerSec

\* ---- C1 ----
\* C1: a Post that starts after a Close has returned returns the
\* client-closed error from the closed check and never reaches the send on
\* minionQueue.
C1_PostAfterCloseFails ==
    \A p \in Callers :
        (op[p] = "Post" /\ afterClose[p]) =>
            /\ ~enqueued[p]
            /\ pc[p] \in {"rlock", "check", "idle"}
            /\ Returned(p) => ret[p] = ErrClientClosed /\ retSite[p] = 63

C1_Witness ==
    \E p \in Callers :
        op[p] = "Post" /\ afterClose[p] /\ Returned(p) /\ ret[p] = ErrClientClosed

\* ---- C2 ----
\* C2: with a minion that keeps receiving and replying until it closes
\* minionDone, every Post that has been called returns, with nil, the
\* client-closed error, the writer-closed error or the minion's reply.
C2_PostReturns ==
    /\ [](\A p \in Callers :
             (op[p] = "Post" /\ Returned(p)) =>
                 ret[p] \in {Nil, ErrClientClosed, ErrWriterClosed} \cup AckValues)
    /\ \A p \in Callers : (op[p] = "Post" /\ InCall(p)) ~> Returned(p)

C2_Witness ==
    \E p, q \in Callers :
        /\ op[p] = "Post" /\ Returned(p) /\ enqueued[p]
        /\ op[q] \in {"Close", "Shutdown"} /\ pc[q] = "lockwait"

\* ---- C3 ----
\* C3: a Shutdown whose deadline has passed while minionDone is open is never
\* left waiting for the minion, and when it has returned it returned the
\* deadline's error with closed set.
C3_ShutdownReturnsAtDeadline ==
    \A p \in Callers :
        (op[p] = "Shutdown" /\ ctx[p] = "deadline" /\ ~minionDone) =>
            /\ InCall(p) => ~WaitsForWorker
            /\ Returned(p) => ret[p] = ErrDeadline /\ closed

\* ---- C4 ----
\* C4: a Close in progress is never left waiting for the minion, whatever the
\* Posts in flight are doing.
C4_CloseNeverWaitsForWorker ==
    \A p \in Callers : (op[p] = "Close" /\ InCall(p)) => ~WaitsForWorker

\* ---- C5 ----
\* C5: when a Post with sync_append has returned nil, the minion has written
\* a reply to that Post's reply channel.
C5_NilAfterReply ==
    \A p \in Callers :
        (op[p] = "Post" /\ AsksSync(args[p].options) /\ Returned(p) /\ ret[p] = Nil) =>
            \E a \in acks : a.ch = replyCh[p]

C5_Witness ==
    \E p \in Callers :
        /\ op[p] = "Post" /\ AsksSync(args[p].options) /\ Returned(p) /\ ret[p] = Nil
        /\ [ch |-> replyCh[p], val |-> Nil] \in acks

\* ---- C6 ----
\* C6: a Post that received a reply holds, and then returns, exactly the
\* value the minion wrote to its reply channel.
C6_ReplyRelayed ==
    \A p \in Callers :
        /\ pc[p] = "gotreply" => [ch |-> replyCh[p], val |-> e[p]] \in acks
        /\ (op[p] = "Post" /\ Returned(p) /\ retSite[p] = 110) =>
               [ch |-> replyCh[p], val |-> ret[p]] \in acks

C6_Witness ==
    \E p \in Callers :
        /\ op[p] = "Post" /\ Returned(p) /\ retSite[p] = 110 /\ ret[p] = ErrBufferFull
        /\ [ch |-> replyCh[p], val |-> ErrBufferFull] \in acks

\* ---- C7 ----
\* C7: a Post called with minionDone closed, while no Close or Shutdown has
\* been called, always has a step to take, never sends its envelope, and
\* returns the writer-closed error.
C7_PostAfterWorkerExit ==
    \A p \in Callers :
        (op[p] = "Post" /\ startDone[p] /\ ~CloseCalled) =>
            /\ ~enqueued[p]
            /\ InCall(p) => ENABLED PostStep(p)
            /\ Returned(p) => ret[p] = ErrWriterClosed

C7_Witness ==
    \E p \in Callers :
        /\ op[p] = "Post" /\ startDone[p] /\ ~CloseCalled
        /\ Returned(p) /\ ret[p] = ErrWriterClosed /\ retSite[p] = 95

\* ---- C8 ----
\* C8: a Shutdown called with minionDone closed, whose context is nil or has
\* not ended, has a step to take whenever no other call is in progress, and
\* returns nil from the minionDone case.
C8_ShutdownAfterWorkerExit ==
    \A p \in Callers :
        (op[p] = "Shutdown" /\ startDone[p] /\ ctx[p] \in {"nil", "live"}) =>
            /\ (InCall(p) /\ \A q \in Callers \ {p} : ~InCall(q)) =>
                   ENABLED (CloseStep(p) \/ ShutdownStep(p))
            /\ Returned(p) => ret[p] = Nil /\ retSite[p] = 150

C8_Witness ==
    \E p \in Callers :
        /\ op[p] = "Shutdown" /\ startDone[p] /\ ctx[p] = "live"
        /\ Returned(p) /\ ret[p] = Nil

\* ---- C9 ----
\* C9: the envelope the minion received carries the seconds of the Post's
\* (last) timestamp option, and the seconds of the clock only when the Post
\* passed no timestamp option.
C9_EnvelopeTime ==
    \A p \in Callers :
        (op[p] = "Post" /\ enqueued[p]) =>
            LET options == args[p].options
                m == received[Len(received)]
            IN  IF HasOption(options, "timestamp")
                THEN m.Time = Seconds(LastOption(options, "timestamp").value)
                ELSE m.Time \in Seconds(StartNow)..Seconds(now)

\* ---- C10 ----
\* C10: a Post whose options do not ask for sync_append builds an envelope
\* without a reply channel, never waits for a reply, can return as soon as
\* its send has happened, and returns nil from the last line whatever the
\* minion does afterwards.
C10_AsyncPost ==
    \A p \in Callers :
        (op[p] = "Post" /\ ~AsksSync(args[p].options)) =>
            /\ replyCh[p] = NoCh
            /\ pc[p] \notin {"select2", "gotreply"}
            /\ pc[p] = "posted" => ENABLED PostAfterEnqueue(p)
            /\ (Returned(p) /\ enqueued[p]) => ret[p] = Nil /\ retSite[p] = 114

C10_Witness ==
    \E p \in Callers :
        /\ op[p] = "Post" /\ args[p].options = <<WithSyncAppend(FALSE)>>
        /\ Returned(p) /\ enqueued[p] /\ ret[p] = Nil /\ minionDone

\* ---- C11 ----
\* a Close or Shutdown called after some Close has returned
Repeated(p) == op[p] \in {"Close", "Shutdown"} /\ afterClose[p]

\* C11: every Close that has returned returned nil; every step of a Close or
\* Shutdown called after a Close has returned leaves closed true and leaves
\* the readers of the lock, the minion and the Message objects as they were;
\* such a Shutdown returns nil only with minionDone closed and can return
\* nil as soon as it waits with minionDone closed.
C11_TeardownRepeats ==
    /\ [](\A p \in Callers : (op[p] = "Close" /\ Returned(p)) => ret[p] = Nil)
    /\ [](\A p \in Callers :
             (Repeated(p) /\ op[p] = "Shutdown") =>
                 /\ (Returned(p) /\ ret[p] = Nil) => minionDone
                 /\ (pc[p] = "wait" /\ minionDone) => ENABLED ShutdownMinionDone(p))
    /\ [][\A p \in Callers :
             (Repeated(p) /\ InCall(p) /\ pc'[p] # pc[p]) =>
                 /\ closed /\ closed'
                 /\ UNCHANGED <<readers, workerVars, poolVars, sent>>]_vars

C11_Witness ==
    \E p \in Callers :
        Repeated(p) /\ Returned(p) /\ ret[p] = Nil /\ cancelCount = 2 /\ closed

\* ---- C12 ----
\* the options of a Post, the subsecond options left out
WithoutSubsecond(options) == SelectSeq(options, LAMBDA opt : opt.name # "subsecond")

\* C12: the envelope a Post is about to build from options that include
\* WithSubsecond(true) differs from the envelope the same Post would build, at
\* the same time, without that option.
C12_SubsecondPerCall ==
    \A p \in Callers :
        (op[p] = "Post" /\ pc[p] = "check" /\ WithSubsecond(TRUE) \in
             {args[p].options[i] : i \in 1..Len(args[p].options)}) =>
            BuildMessage(args[p].tag, args[p].v, args[p].options, now, nextCh)
                # BuildMessage(args[p].tag, args[p].v, WithoutSubsecond(args[p].options),
                               now, nextCh)

\* ---- C13 ----
\* a Post that found closed false and has not returned
PastClosedCheck(p) ==
    op[p] = "Post" /\ pc[p] \in {"select1", "posted", "select2", "gotreply"}

\* C13: a Post that reads closed as true can only return the client-closed
\* error, and that error is returned only with closed true; while a Post that
\* read closed as false sends or waits for its reply, closed is still false,
\* no Close or Shutdown has got past its Lock and minionCancel has not been
\* invoked.
C13_PostRacesClose ==
    \A p \in Callers :
        /\ (op[p] = "Post" /\ pc[p] = "check" /\ closed) =>
               ~ENABLED PostBuild(p) /\ ENABLED PostClosed(p)
        /\ (op[p] = "Post" /\ Returned(p) /\ ret[p] = ErrClientClosed) => closed
        /\ PastClosedCheck(p) =>
               /\ ~closed
               /\ cancelCount = 0
               /\ \A q \in Callers : pc[q] \notin {"cancel", "wait"}

C13_Witness ==
    \E p, q \in Callers :
        /\ PastClosedCheck(p) /\ pc[p] = "select2"
        /\ op[q] = "Close" /\ pc[q] = "lockwait"
        /\ cancelCount = 0

\* ---- C14 ----
\* minionCancel is about to be invoked or has been invoked
CancelFires == cancelCount > 0 \/ \E q \in Callers : pc[q] = "cancel"

\* C14: when minionCancel is invoked, and from then on, no Post is in the
\* middle of its send, and the minion has received every envelope that was
\* sent: as many as were sent, in the order of the sends, with the tag and
\* the record of the Post that sent them.
C14_ReceivedBeforeCancel ==
    CancelFires =>
        /\ \A p \in Callers : ~PastClosedCheck(p)
        /\ Len(received) = Len(sent)
        /\ \A i \in 1..Len(sent) :
               received[i].Tag = sent[i].tag /\ received[i].Record = sent[i].v
        /\ \A p \in Callers :
               (op[p] = "Post" /\ enqueued[p]) =>
                   \E i \in 1..Len(received) :
                       received[i].Tag = args[p].tag /\ received[i].Record = args[p].v

C14_Witness ==
    /\ cancelCount > 0
    /\ \E p \in Callers : op[p] = "Post" /\ enqueued[p] /\ ~afterClose[p]
    /\ Len(received) > 0

\* ---- C15 ----
\* C15: if minionCancel has been invoked then closed is true; closed is set
\* only by the holder of the write lock, with no reader left, and stays
\* true; a Close invokes minionCancel with closed set and the lock released;
\* minionCancel is invoked only by the step that ends a Close, once, and no
\* Close returns (and no Shutdown starts to wait) without that step.
C15_CancelImpliesClosed ==
    /\ [](cancelCount > 0 => closed)
    /\ [](\A p \in Callers : pc[p] = "cancel" => closed /\ writer # p)
    /\ [][closed => closed']_vars
    /\ [][closed' # closed =>
             \E p \in Callers : pc[p] = "lockwait" /\ writer = p /\ readers = {}]_vars
    /\ [][\A p \in Callers :
             /\ (pc[p] = "cancel" /\ pc'[p] # "cancel") <=>
                    (op[p] \in {"Close", "Shutdown"} /\ pc[p] # pc'[p]
                        /\ pc'[p] = IF op[p] = "Close" THEN "idle" ELSE "wait")
             /\ (pc[p] = "cancel" /\ pc'[p] # "cancel") => cancelCount' = cancelCount + 1
             /\ cancelCount' # cancelCount =>
                    \E q \in Callers : pc[q] = "cancel" /\ pc'[q] # "cancel"]_vars

C15_Witness ==
    \E p, q \in Callers :
        /\ op[p] = "Close" /\ Returned(p) /\ cancelCount = 1 /\ closed
        /\ pc[q] = "lockwait" /\ writer = q

\* ---- C16 ----
\* C16: a Shutdown that returned nil returned with minionDone closed; one
\* that returned an error returned the error of its context, which had been
\* cancelled or had expired; a Shutdown with a nil context returns nil, and
\* while minionDone is open it cannot return.
C16_ShutdownResult ==
    \A p \in Callers :
        op[p] = "Shutdown" =>
            /\ (Returned(p) /\ ret[p] = Nil) => minionDone
            /\ (Returned(p) /\ ret[p] # Nil) =>
                   /\ ctx[p] \in {"canceled", "deadline"}
                   /\ ret[p] = (IF ctx[p] = "canceled" THEN ErrCanceled ELSE ErrDeadline)
            /\ (Returned(p) /\ ctx[p] = "nil") => ret[p] = Nil /\ minionDone
            /\ (pc[p] = "wait" /\ ctx[p] = "nil" /\ ~minionDone) => ~ENABLED ShutdownStep(p)

C16_Witness ==
    \E p, q \in Callers :
        /\ op[p] = "Shutdown" /\ Returned(p) /\ ret[p] = ErrCanceled /\ ~minionDone
        /\ op[q] = "Shutdown" /\ ctx[q] = "nil" /\ pc[q] = "wait"

\* ---- C17 ----
\* a Post with sync_append that has made its reply channel
SyncPost(p) == op[p] = "Post" /\ replyCh[p] # NoCh

\* C17: the reply channels of the sync Posts are fresh: no two Posts have
\* the same one, no two envelopes the minion received carry the same one, and
\* a Post's channel is in no envelope before its send. The minion writes at
\* most one reply to a channel, and a reply is written to a Post's channel
\* exactly when that Post has read it; the value the Post holds or returned
\* is that reply. While the minion holds the envelope of a Post that waits
\* for its reply, the Post can receive the reply, whatever has become of the
\* Message object it sent.
C17_OwnReplyOnly ==
    /\ \A p, q \in Callers : (SyncPost(p) /\ SyncPost(q) /\ p # q) => replyCh[p] # replyCh[q]
    /\ \A i, j \in 1..Len(received) :
           (i # j /\ received[i].replyCh # NoCh) => received[i].replyCh # received[j].replyCh
    /\ \A a, b \in acks : a.ch = b.ch => a = b
    /\ \A p \in Callers :
           SyncPost(p) =>
               /\ ~enqueued[p] => \A i \in 1..Len(received) : received[i].replyCh # replyCh[p]
               /\ (\E a \in acks : a.ch = replyCh[p]) <=>
                      (pc[p] = "gotreply" \/ (Returned(p) /\ retSite[p] = 110))
               /\ pc[p] = "gotreply" => [ch |-> replyCh[p], val |-> e[p]] \in acks
               /\ (Returned(p) /\ retSite[p] = 110) =>
                      [ch |-> replyCh[p], val |-> ret[p]] \in acks
               /\ (pc[p] = "select2" /\ ~minionDone /\ workerCur.replyCh = replyCh[p]) =>
                      \A val \in AckValues : ENABLED WorkerReply(p, val)

\* two sync Posts, one of which got its reply after the Message object it
\* sent was released and taken from the pool by the other
C17_Witness ==
    \E p, q \in Callers :
        /\ p # q /\ SyncPost(p) /\ SyncPost(q)
        /\ msg[p] = msg[q]
        /\ heap[msg[p]].replyCh = replyCh[q]
        /\ pc[p] = "gotreply" /\ [ch |-> replyCh[p], val |-> e[p]] \in acks

\* ---- C18 ----
\* C18: a Post that returned nil, a reply or the writer-closed error of the
\* second select has sent its envelope, and one that returned the
\* client-closed error or the writer-closed error of the first select has
\* not; the minion has received as many envelopes as sends have happened,
\* the i-th of them with the tag and the record of the i-th send; and the
\* minion receives an envelope only in a step in which exactly one Post
\* completes its send, for the first time in that call, and it is one
\* envelope with that Post's tag and record.
C18_OneEnvelopePerPost ==
    /\ [](\A p \in Callers :
             (op[p] = "Post" /\ Returned(p)) =>
                 /\ retSite[p] \in {63, 95, 105, 110, 114}
                 /\ retSite[p] \in {105, 110, 114} => enqueued[p]
                 /\ retSite[p] \in {63, 95} => ~enqueued[p]
                 /\ ret[p] = ErrClientClosed => ~enqueued[p])
    /\ [](/\ Len(received) = Len(sent)
          /\ \A i \in 1..Len(sent) :
                 received[i].Tag = sent[i].tag /\ received[i].Record = sent[i].v)
    /\ [][received' # received =>
             \E p \in Callers :
                 /\ op[p] = "Post" /\ pc[p] = "select1" /\ pc'[p] = "posted"
                 /\ ~enqueued[p] /\ enqueued'[p]
                 /\ \A q \in Callers \ {p} : enqueued'[q] = enqueued[q] /\ pc'[q] = pc[q]
                 /\ Len(received') = Len(received) + 1
                 /\ SubSeq(received', 1, Len(received)) = received
                 /\ received'[Len(received')].Tag = args[p].tag
                 /\ received'[Len(received')].Record = args[p].v]_vars
    /\ [][\A p \in Callers :
             (enqueued'[p] /\ ~enqueued[p]) => Len(received') = Len(received) + 1]_vars

C18_Witness ==
    \E p, q \in Callers :
        /\ op[p] = "Post" /\ Returned(p) /\ retSite[p] = 105 /\ enqueued[p]
        /\ op[q] = "Post" /\ Returned(q) /\ retSite[q] = 95 /\ ~enqueued[q]
        /\ Len(received) = 1 /\ received[1].Tag = args[p].tag

\* ---- C19 ----
\* C19: once minionDone is closed, whenever some call is in progress some
\* call can take a step, and every call in progress returns, a sync Post
\* that waits for its reply included.
C19_NoDeadlockAfterExit ==
    /\ []((minionDone /\ \E p \in Callers : InCall(p)) => ENABLED ClientStep)
    /\ \A p \in Callers : (minionDone /\ InCall(p)) ~> Returned(p)

C19_Witness ==
    \E p, q \in Callers :
        /\ op[p] = "Post" /\ Returned(p) /\ retSite[p] = 105 /\ ret[p] = ErrWriterClosed
        /\ op[q] = "Shutdown" /\ Returned(q) /\ ret[q] = Nil
        /\ minionDone

\* ---- C20 ----
\* C20: in every step in which a Post returns the writer-closed error,
\* minionDone is closed while minionCancel has not been invoked and closed is
\* false, before and after the step.
C20_WriterClosedWithoutCancel ==
    [][\A p \in Callers :
          (op[p] = "Post" /\ InCall(p) /\ pc'[p] = "idle" /\ ret'[p] = ErrWriterClosed) =>
              /\ minionDone
              /\ cancelCount = 0 /\ cancelCount' = 0
              /\ ~closed /\ ~closed']_vars

C20_Witness ==
    \E p, q \in Callers :
        /\ op[p] = "Post" /\ Returned(p) /\ ret[p] = ErrWriterClosed
        /\ op[q] \in {"Close", "Shutdown"} /\ pc[q] = "lockwait"
        /\ cancelCount = 0 /\ minionDone
====
